---- MODULE Spec2Model ----
(***************************************************************************)
(* A model of the data-acquisition engine of microscope.devices.DataDevice *)
(* (src/microscope/devices.py): the fetch loop, the dispatch loop, the     *)
(* client stack and the blocking single-shot capture grab_next_data, and   *)
(* of the lifecycle of Device and DataDevice: enable, disable, shutdown,   *)
(* abort, make_safe, destruction and the keep_acquiring envelope of the    *)
(* settings methods, and of Device.update_settings over the registry of    *)
(* settings; further of Setting.set and Setting.get, of the ROI methods of *)
(* CameraDevice, of the lock_comms wrapper of SerialDeviceMixIn and of     *)
(* set_trigger of the Alpao mirror (src/microscope/mirror/alpao.py).       *)
(*                                                                         *)
(* Every Python thread is a process with a program counter.  Accesses to   *)
(* the attributes shared between threads (_clientStack, _liveClients, the  *)
(* dispatch buffer, the condition's lock) are separate steps, because the  *)
(* code takes no lock around them: a statement such as                     *)
(*     self._liveClients = set(self._clientStack)                          *)
(* reads one attribute and stores another, and another thread may run in   *)
(* between.                                                                *)
(***************************************************************************)
EXTENDS Integers, Sequences, FiniteSets, TLC

\* ------------------------------------------------------------------ bounds

\* Fetch-hook invocations that return data or raise, in runs of Spec.
MaxFetch == 2
\* Largest buffer_length given to DataDevice.__init__.
MaxBufferLength == 2
\* Longest client stack the RPC callers of set_client build.
MaxStack == 2
\* The same bounds for runs of GrabSpec, and the number of grab_next_data
\* calls made in one run.
GrabMaxFetch == 1
GrabMaxStack == 1
MaxGrab == 2
\* Fetch-hook invocations that return data or raise, and calls of the
\* lifecycle and settings methods, in runs of LifeSpec.
LifeMaxFetch == 1
MaxOps == 3
\* Largest value of a setting: values are 0..MaxValue.
MaxValue == 1
\* Largest depth of wrapped operations calling wrapped operations.
MaxNest == 2
\* Largest left and top of a ROI; its width and height are 1..MaxCoord + 1.
MaxCoord == 1

\* ------------------------------------------------------------------ values

\* Remote client handles (Pyro proxies) and the device itself, which
\* grab_next_data pushes onto the client stack as a client.
Clients == {"c1", "c2"}
Engine == "self"
None == "none"
Handles == Clients \cup {Engine}

\* Threads that call the public methods: one RPC handler thread for
\* set_client and two callers of grab_next_data.
Rpc == "rpc"
Grabbers == {"g1", "g2"}
Threads == {Rpc} \cup Grabbers

\* What one invocation of the _fetch_data hook can do: return None, return
\* data, or raise an exception whose message is ASCII or is not.
DataKind == "data"
ErrAscii == "err_ascii"
ErrNonAscii == "err_nonascii"
Kinds == {DataKind, ErrAscii, ErrNonAscii}
IsError(kind) == kind \in {ErrAscii, ErrNonAscii}

\* What _process_data followed by client.receiveData can do.
SendOutcomes == {"ok", "unreachable", "error", "process_error"}

\* The two kinds of device: a plain Device and a DataDevice.
Plain == "plain"
Data == "data_device"
DeviceKinds == {Plain, Data}

\* What a hardware hook (_on_enable) or a setter can do: return a true or
\* a false value, or raise.
HookResults == {"true", "false", "raise"}

\* The outcome of the last completed call of a lifecycle or settings
\* method: the method, what its _on_enable hook did ("setter" when the
\* setter raised before the hook was reached), and what the caller got
\* ("true", "false", "none" for a return of None, "raised" for an
\* exception).
NoCall == [op |-> None, hook |-> None, out |-> None]

\* The names a setting can be registered under and a client can send,
\* and the values of a setting.
Names == {"a", "b"}
Values == 0..MaxValue

\* The Setting objects add_setting can register: one with a setter, one
\* flagged readonly, one registered with set_func = None.
Writable == "writable"
ReadOnly == "readonly"
NoSetter == "no_setter"
SettingKinds == {Writable, ReadOnly, NoSetter}

\* None where a number may stand: _last_written before any write, and
\* what get returns for it.
NoneValue == -2

\* The members of an enumerated type given as "values" are the numbers
\* above the raw values.  ToMember is the type called on a raw value or
\* on a member, "self._values(value)", and MemberValue is ".value".
ToMember(x) == IF x > MaxValue THEN x ELSE x + MaxValue + 1
MemberValue(m) == m - (MaxValue + 1)

\* No Setting under this name.
NoSetting == [kind |-> None]

\* Setting(name, dtype, get_func, set_func, values): a Setting has the
\* kind of its setter, the value the hardware holds, whether get_func
\* was given, the attribute _last_written, which starts as None, and
\* whether "values" is an enumerated type.
Setting(kind, v, getter, enum) ==
    [kind |-> kind, value |-> v, getter |-> getter, written |-> NoneValue,
     enum |-> enum]

\* The NotImplemented marker of a result, which is no value of a setting.
NotImplemented == -1

\* The mappings a client can send as "incoming".
EmptyMap == [n \in {} |-> 0]
IncomingMaps == UNION {[K -> Values] : K \in SUBSET Names}

\* What a call returns: None, or a mapping from names to values.
NoValue == [none |-> TRUE, map |-> EmptyMap]
Mapping(m) == [none |-> FALSE, map |-> m]

\* TriggerType and TriggerMode.
TriggerType == {"SOFTWARE", "RISING_EDGE", "FALLING_EDGE", "PULSE"}
TriggerMode == {"ONCE", "BULB", "STROBE", "START"}

\* What the SDK of the mirror answers to a call: SUCCESS, or a failure
\* with a message on its error stack.
SdkStatus == {"SUCCESS", "FAILURE"}

\* ALLOWED_TRANSFORMS, as (fliplr, flipud, rot90), and the transform a
\* camera starts with.
Transforms == BOOLEAN \X BOOLEAN \X BOOLEAN
NoTransform == <<FALSE, FALSE, FALSE>>

\* ROI(left, top, width, height) with non-zero width and height, and the
\* ROI of a device that has none.
Rois == (0..MaxCoord) \X (0..MaxCoord) \X (1..MaxCoord + 1) \X (1..MaxCoord + 1)
NoRoi == <<0, 0, 0, 0>>

\* The attributes a concrete device class adds, after its constructor.
\* Of AlpaoDeformableMirror: the trigger type and mode, with the
\* arguments of the last set_trigger call.
MirrorAttrs == [trigger_type |-> "SOFTWARE", trigger_mode |-> "ONCE",
                ttype |-> None, tmode |-> None]

\* Of a serial device: the owner and the recursion level of _comms_lock,
\* with the thread that last flushed the input of the connection.
SerialAttrs == [comms_owner |-> None, comms_count |-> 0, line |-> None]

\* Of a camera: the readout transform, the client's transform and their
\* combination, the ROI the hardware holds and the argument of the last
\* set_roi call.
CameraAttrs == [readout_transform |-> NoTransform,
                client_transform |-> NoTransform,
                transform |-> NoTransform,
                roi |-> NoRoi, asked |-> NoRoi]

\* Device and DataDevice have none.
NoAttrs == <<>>

\* No update_settings call in progress.
NoUpdate == [incoming |-> EmptyMap, init |-> FALSE, before |-> EmptyMap,
             update_keys |-> {}, todo |-> {}, results |-> EmptyMap,
             calls |-> <<>>, raised |-> FALSE, ret |-> NoValue]

NoItem == [client |-> None, kind |-> None, id |-> 0]
NoData == [kind |-> None, id |-> 0]

VARIABLES
    enabled,            \* Device.enabled: "unknown" (None), "true", "false"
    fetch_thread_run,   \* DataDevice._fetch_thread_run
    fpc,                \* position of the fetch thread
    fitem,              \* the (client, data, timestamp) tuple being enqueued
    nfetched,           \* fetch iterations that produced data or an error
    buffer_length,      \* the maxsize of DataDevice._dispatch_buffer
    buffer,             \* DataDevice._dispatch_buffer
    dpc,                \* position of the dispatch thread
    ditem,              \* the tuple the dispatch loop took from the buffer
    dtmp,               \* value computed by _send_data, not yet stored
    clientStack,        \* DataDevice._clientStack
    liveClients,        \* DataDevice._liveClients
    tpc,                \* position of every calling thread
    targ,               \* the argument of the set_client call in progress
    ttmp,               \* set(self._clientStack) computed, not yet stored
    lockOwner,          \* owner of _new_data_condition's RLock, or None
    lockCount,          \* recursion level of that RLock
    savedCount,         \* recursion level saved by a thread in wait()
    waiters,            \* threads blocked in wait(), in arrival order
    new_data,           \* DataDevice._new_data
    grabResult,         \* what each thread's last grab_next_data returned
    ngrabs,             \* grab_next_data calls started
    stackAtCall,        \* _clientStack when a grab_next_data call began
    recent,             \* per client, the ids of its last two deliveries
    dlast,              \* what the dispatch loop did with the item it took last
    devKind,            \* the class of the device: Plain or Data
    acquiring,          \* DataDevice._acquiring
    lpc,                \* position of the thread calling lifecycle methods
    lop,                \* the lifecycle or settings method it is in
    lret,               \* the outcome of its last completed call
    preEnabled,         \* Device.enabled when the call in progress began
    disRun,             \* disable() calls completed in a row
    shut,               \* runs of the _on_shutdown hook
    destroyed,          \* __del__ has run
    klog,               \* abort, setter and enable-hook calls of a settings call
    wasAcq,             \* _acquiring when the last settings or abort call began
    nops,               \* lifecycle and settings calls started
    extraFetch,         \* fetch loops running beside the one at fpc
    extraDisp,          \* dispatch loops running beside the one at dpc
    settings,           \* Device.settings: per name, the Setting and its value
    upd,                \* arguments and locals of the last settings call
    attrs               \* attributes of the concrete device class

fetchVars == <<fetch_thread_run, fpc, fitem, nfetched>>
dispVars == <<dpc, ditem, dtmp>>
clientVars == <<clientStack, liveClients>>
callVars == <<tpc, targ, ttmp>>
condVars == <<lockOwner, lockCount, savedCount, waiters, new_data>>
grabVars == <<grabResult, ngrabs, stackAtCall>>
logVars == <<recent, dlast>>
lifeVars == <<devKind, acquiring, lpc, lop, lret, preEnabled, disRun, shut, destroyed,
              klog, wasAcq, nops>>
raceVars == <<extraFetch, extraDisp>>
setVars == <<settings, upd>>
classVars == <<attrs>>

\* The variables the two loops, set_client and grab_next_data leave alone.
restVars == <<lifeVars, raceVars, setVars, classVars>>

vars == <<enabled, fetchVars, buffer_length, buffer, dispVars, clientVars, callVars,
          condVars, grabVars, logVars, lifeVars, raceVars, setVars, classVars>>

\* ----------------------------------------------------------------- helpers

Last(s) == s[Len(s)]
Front(s) == SubSeq(s, 1, Len(s) - 1)
Range(s) == {s[i] : i \in 1..Len(s)}

RECURSIVE Without(_, _)
\* list(filter(client.__ne__, stack)): every occurrence of client removed,
\* the others in their order.
Without(stack, client) ==
    IF stack = <<>> THEN <<>>
    ELSE IF Head(stack) = client THEN Without(Tail(stack), client)
         ELSE <<Head(stack)>> \o Without(Tail(stack), client)

\* The _client property: (self._clientStack or [None])[-1].
ActiveClient(stack) == IF stack = <<>> THEN None ELSE Last(stack)

\* A put that never blocks, whatever the capacity.
BufferAlwaysHasRoom(buf, maxsize) == TRUE

\* queue.Queue.put blocks while a bounded queue is full; maxsize 0 is
\* unbounded.
BufferHasRoom(buf, maxsize) == maxsize = 0 \/ Len(buf) < maxsize

\* ------------------------------------------------------------------- Init

\* The attributes of a device of class k: the Alpao mirror, a serial
\* device, a camera, or a plain or data device.
ClassAttrs(k) ==
    CASE k = "mirror" -> MirrorAttrs
      [] k = "serial" -> SerialAttrs
      [] k = "camera" -> CameraAttrs
      [] OTHER -> NoAttrs

\* The state after Device.__init__ and, for a data device,
\* DataDevice.__init__.
DeviceInit(k) ==
    /\ devKind = k
    /\ acquiring = FALSE
    /\ lpc = "idle"
    /\ lop = None
    /\ lret = NoCall
    /\ preEnabled = "unknown"
    /\ disRun = 0
    /\ shut = 0
    /\ destroyed = FALSE
    /\ klog = <<>>
    /\ wasAcq = FALSE
    /\ nops = 0
    /\ enabled = "unknown"
    /\ fetch_thread_run = FALSE
    /\ fpc = "idle"
    /\ fitem = NoItem
    /\ nfetched = 0
    /\ buffer_length \in 0..MaxBufferLength
    /\ buffer = <<>>
    /\ dpc = "idle"
    /\ ditem = NoItem
    /\ dtmp = None
    /\ clientStack = <<>>
    /\ liveClients = {}
    /\ tpc = [t \in Threads |-> "idle"]
    /\ targ = [t \in Threads |-> None]
    /\ ttmp = [t \in Threads |-> {}]
    /\ lockOwner = None
    /\ lockCount = 0
    /\ savedCount = [t \in Threads |-> 0]
    /\ waiters = <<>>
    /\ new_data = NoData
    /\ grabResult = [t \in Grabbers |-> NoData]
    /\ ngrabs = 0
    /\ stackAtCall = [t \in Grabbers |-> <<>>]
    /\ recent = [h \in Handles |-> [prev |-> 0, last |-> 0]]
    /\ dlast = "none"
    /\ extraFetch = 0
    /\ extraDisp = 0
    /\ settings = [n \in Names |-> NoSetting]
    /\ attrs = ClassAttrs(k)
    /\ upd = NoUpdate

Init == DeviceInit(Data)

\* ----------------------------------------------------------------- enable

\* What the _on_enable hook of a device variant does to _acquiring: the
\* device is acquiring from a successful enable until abort.
OnEnableAcquiring(result, acq) == IF result = "true" THEN TRUE ELSE acq

\* What the caller of DataDevice.enable gets: the enabled flag, or the
\* exception of the hook, which enable re-raises.
EnableOutcome(result) == IF result = "raise" THEN "raised" ELSE result

\* DataDevice.enable: start the fetch and the dispatch thread unless they
\* are alive, run the _on_enable hook and record its result.  Callers
\* enable a device that is not enabled or whose threads have ended.
Enable(result) ==
    /\ devKind = Data
    /\ lpc = "idle"
    /\ ~destroyed
    /\ enabled # "true" \/ fpc = "dead" \/ dpc = "dead"
    /\ fpc' = IF fpc \in {"idle", "dead"} THEN "start" ELSE fpc
    /\ dpc' = IF dpc \in {"idle", "dead"} THEN "get" ELSE dpc
    /\ enabled' = IF result = "true" THEN "true" ELSE "false"
    /\ acquiring' = OnEnableAcquiring(result, acquiring)
    /\ lret' = [op |-> "enable", hook |-> result, out |-> EnableOutcome(result)]
    /\ disRun' = 0
    /\ UNCHANGED <<fetch_thread_run, fitem, nfetched, buffer_length, buffer,
                   ditem, dtmp,
                   clientVars, callVars, condVars, grabVars, logVars, raceVars, setVars, classVars>>
    /\ UNCHANGED <<devKind, lpc, lop, preEnabled, shut, destroyed, klog, wasAcq, nops>>

\* Device.enable: self.enabled = self._on_enable(); an exception of the
\* hook is logged and swallowed, and the method returns None.
PlainEnable(result) ==
    /\ devKind = Plain
    /\ lpc = "idle"
    /\ ~destroyed
    /\ enabled' = IF result = "raise" THEN enabled ELSE result
    /\ lret' = [op |-> "enable", hook |-> result, out |-> None]
    /\ disRun' = 0
    /\ UNCHANGED <<fetchVars, buffer_length, buffer, dispVars, clientVars, callVars,
                   condVars, grabVars, logVars, raceVars, setVars, classVars>>
    /\ UNCHANGED <<devKind, acquiring, lpc, lop, preEnabled, shut, destroyed, klog,
                   wasAcq, nops>>

\* ------------------------------------------- enable on several threads

\* DataDevice.enable as its statements run when several threads of the
\* server call it: each test of a thread and each start of a thread is a
\* step, and no lock is held between them.  A call begins with the test
\* "if not self._fetch_thread or not self._fetch_thread.is_alive()".
EnableCall(t) ==
    /\ tpc[t] = "idle"
    /\ tpc' = [tpc EXCEPT ![t] = "en_fetch"]
    /\ nops' = nops + 1
    /\ UNCHANGED <<enabled, fetchVars, buffer_length, buffer, dispVars, clientVars,
                   targ, ttmp, condVars, grabVars, logVars, raceVars, setVars, classVars>>
    /\ UNCHANGED <<devKind, acquiring, lpc, lop, lret, preEnabled, disRun, shut,
                   destroyed, klog, wasAcq>>

\* The test of enable(): there is no thread object, or the thread is not
\* alive.
NoThread(pc) == pc \in {"idle", "dead"}

EnableTestFetch(t) ==
    /\ tpc[t] = "en_fetch"
    /\ tpc' = [tpc EXCEPT ![t] = IF NoThread(fpc) THEN "en_start_fetch"
                                 ELSE "en_disp"]
    /\ UNCHANGED <<restVars, enabled, fetchVars, buffer_length, buffer,
                   dispVars, clientVars, targ, ttmp, condVars, grabVars, logVars>>

\* self._fetch_thread = Thread(target=self._fetch_loop); ...; start():
\* one more fetch loop runs, whatever was started since the test.
EnableStartFetch(t) ==
    /\ tpc[t] = "en_start_fetch"
    /\ IF NoThread(fpc)
       THEN fpc' = "start" /\ UNCHANGED extraFetch
       ELSE extraFetch' = extraFetch + 1 /\ UNCHANGED fpc
    /\ tpc' = [tpc EXCEPT ![t] = "en_disp"]
    /\ UNCHANGED <<lifeVars, extraDisp, setVars, classVars, enabled, fetch_thread_run, fitem, nfetched,
                   buffer_length, buffer, dispVars, clientVars, targ, ttmp,
                   condVars, grabVars, logVars>>

\* "if not self._dispatch_thread or not self._dispatch_thread.is_alive()".
EnableTestDispatch(t) ==
    /\ tpc[t] = "en_disp"
    /\ tpc' = [tpc EXCEPT ![t] = IF NoThread(dpc) THEN "en_start_disp"
                                 ELSE "en_hook"]
    /\ UNCHANGED <<restVars, enabled, fetchVars, buffer_length, buffer,
                   dispVars, clientVars, targ, ttmp, condVars, grabVars, logVars>>

\* self._dispatch_thread = Thread(target=self._dispatch_loop); ...; start().
EnableStartDispatch(t) ==
    /\ tpc[t] = "en_start_disp"
    /\ IF NoThread(dpc)
       THEN dpc' = "get" /\ UNCHANGED extraDisp
       ELSE extraDisp' = extraDisp + 1 /\ UNCHANGED dpc
    /\ tpc' = [tpc EXCEPT ![t] = "en_hook"]
    /\ UNCHANGED <<lifeVars, extraFetch, setVars, classVars, enabled, fetchVars, buffer_length, buffer,
                   ditem, dtmp, clientVars, targ, ttmp, condVars, grabVars, logVars>>

\* The call of the _on_enable hook, the store of the flag and the return.
EnableHook(t, result) ==
    /\ tpc[t] = "en_hook"
    /\ enabled' = IF result = "true" THEN "true" ELSE "false"
    /\ acquiring' = OnEnableAcquiring(result, acquiring)
    /\ lret' = [op |-> "enable", hook |-> result, out |-> EnableOutcome(result)]
    /\ tpc' = [tpc EXCEPT ![t] = "idle"]
    /\ UNCHANGED <<fetchVars, buffer_length, buffer, dispVars, clientVars, targ, ttmp,
                   condVars, grabVars, logVars, raceVars, setVars, classVars>>
    /\ UNCHANGED <<devKind, lpc, lop, preEnabled, disRun, shut, destroyed, klog,
                   wasAcq, nops>>

\* ------------------------------------------------------------- fetch loop

\* _fetch_loop, first statement: self._fetch_thread_run = True.
FetchLoopStart ==
    /\ fpc = "start"
    /\ fetch_thread_run' = TRUE
    /\ fpc' = "poll"
    /\ UNCHANGED <<restVars, enabled, buffer_length, fitem, nfetched, buffer, dispVars, clientVars,
                   callVars, condVars, grabVars, logVars>>

\* One turn of "while self._fetch_thread_run:" with the call of the hook,
\* data = self._fetch_data(): the hook returns None (the loop sleeps 1 ms
\* and tests again), returns data, or raises an exception, which the loop
\* catches and enqueues in place of data.
FetchData(outcome) ==
    /\ fpc = "poll"
    /\ IF ~fetch_thread_run
       THEN /\ fpc' = "dead"
            /\ UNCHANGED <<fitem, nfetched>>
       ELSE IF outcome = None
       THEN UNCHANGED <<fpc, fitem, nfetched>>
       ELSE /\ nfetched' = nfetched + 1
            /\ fitem' = [client |-> None, kind |-> outcome,
                         id |-> nfetched + 1]
            /\ fpc' = "tag"
    /\ UNCHANGED <<restVars, enabled, buffer_length, fetch_thread_run, buffer, dispVars, clientVars,
                   callVars, condVars, grabVars, logVars>>

\* _put, building the tuple: (self._client, data, timestamp).
PutTag ==
    /\ fpc = "tag"
    /\ fitem' = [fitem EXCEPT !.client = ActiveClient(clientStack)]
    /\ fpc' = "put"
    /\ UNCHANGED <<restVars, enabled, buffer_length, fetch_thread_run, nfetched, buffer, dispVars,
                   clientVars, callVars, condVars, grabVars, logVars>>

\* A buffer that hands items back newest first.
EnqueueNewestFirst(buf, item) == <<item>> \o buf

\* The buffer after put(item) and the item get() returns: a FIFO queue.
Enqueue(buf, item) == Append(buf, item)

\* _put, self._dispatch_buffer.put(...): blocks while the buffer is full.
PutEnqueue ==
    /\ fpc = "put"
    /\ BufferHasRoom(buffer, buffer_length)
    /\ buffer' = Enqueue(buffer, fitem)
    /\ fitem' = NoItem
    /\ fpc' = "poll"
    /\ UNCHANGED <<restVars, enabled, buffer_length, fetch_thread_run, nfetched, dispVars,
                   clientVars, callVars, condVars, grabVars, logVars>>

\* ---------------------------------------------------------- dispatch loop

\* client, data, timestamp = self._dispatch_buffer.get(block=True)
DispatchGet ==
    /\ dpc = "get"
    /\ buffer # <<>>
    /\ ditem' = Head(buffer)
    /\ buffer' = Tail(buffer)
    /\ dpc' = "check"
    /\ UNCHANGED <<restVars, enabled, buffer_length, fetchVars, dtmp, clientVars, callVars, condVars,
                   grabVars, logVars>>

\* What the client is handed: the transformed data, or the sanitized
\* exception, which _process_data never sees.
Payload(item) ==
    [kind |-> item.kind, id |-> item.id]

\* The record of a delivery: receiveData was called on the item's client.
Delivered(rec, item) ==
    [rec EXCEPT ![item.client] = [prev |-> rec[item.client].last,
                                  last |-> item.id]]

\* A dispatch loop that skips the liveness test.
IsLiveUnchecked(client, live) == TRUE

\* if client not in self._liveClients: continue
IsLive(client, live) == client \in live

\* The liveness test of the loop.  On "continue" the loop's locals keep
\* the skipped item until the next get() rebinds them.
DispatchCheck ==
    /\ dpc = "check"
    /\ IF IsLive(ditem.client, liveClients)
       THEN /\ dpc' = "send"
            /\ dlast' = "handling"
            /\ UNCHANGED ditem
       ELSE /\ dpc' = "get"
            /\ dlast' = "dropped"
            /\ UNCHANGED ditem
    /\ UNCHANGED <<restVars, enabled, buffer_length, fetchVars, buffer, dtmp, clientVars, callVars,
                   condVars, grabVars, recent>>

\* Whether Exception(str(data).encode('ascii')) can be built: str.encode
\* raises UnicodeEncodeError on a message with a non-ASCII character, and
\* the statement stands outside the loop's try blocks.
CanSanitize(kind) == kind # ErrNonAscii

\* A dispatch loop that lets a failed delivery end it.
AfterFailureDies == "dead"

\* Where the loop goes after it caught and logged an exception of the
\* transform or of the delivery.
AfterFailure == "get"

\* The body of the loop: sanitize or transform, then _send_data.
\* "unreachable" is Pyro's ConnectionClosedError or CommunicationError,
\* which _send_data handles by pruning the client; every other exception
\* is caught and logged by the loop.  A delivery to the device itself is a
\* local call of receiveData, which raises none of them.
DispatchSend(outcome) ==
    /\ dpc = "send"
    /\ ditem.client = Engine => outcome \in {"ok", "process_error"}
    /\ IF ~CanSanitize(ditem.kind)
       THEN /\ dpc' = "dead"
            /\ ditem' = NoItem
            /\ dlast' = "died"
            /\ UNCHANGED <<dtmp, recent>>
       ELSE CASE outcome = "ok" /\ ditem.client # Engine ->
                   /\ recent' = Delivered(recent, ditem)
                   /\ dlast' = "delivered"
                   /\ dpc' = "get"
                   /\ ditem' = NoItem
                   /\ UNCHANGED dtmp
              [] outcome = "ok" /\ ditem.client = Engine ->
                   /\ dpc' = "recv"
                   /\ UNCHANGED <<ditem, dtmp, logVars>>
              [] outcome = "unreachable" ->
                   /\ dtmp' = Without(clientStack, ditem.client)
                   /\ dpc' = "prune_stack"
                   /\ UNCHANGED <<ditem, logVars>>
              [] outcome \in {"error", "process_error"} ->
                   /\ outcome = "process_error" => ~IsError(ditem.kind)
                   /\ dpc' = AfterFailure
                   /\ ditem' = NoItem
                   /\ dlast' = "failed"
                   /\ UNCHANGED <<dtmp, recent>>
    /\ UNCHANGED <<restVars, enabled, buffer_length, fetchVars, buffer, clientVars, callVars,
                   condVars, grabVars>>

\* _send_data, the store of self._clientStack = list(filter(...)).
PruneStoreStack ==
    /\ dpc = "prune_stack"
    /\ clientStack' = dtmp
    /\ dtmp' = None
    /\ dpc' = "prune_live"
    /\ UNCHANGED <<restVars, enabled, buffer_length, fetchVars, buffer, ditem, liveClients, callVars,
                   condVars, grabVars, logVars>>

\* _send_data, the read of self._liveClients.difference([client]).
PruneReadLive ==
    /\ dpc = "prune_live"
    /\ dtmp' = liveClients \ {ditem.client}
    /\ dpc' = "prune_store"
    /\ UNCHANGED <<restVars, enabled, buffer_length, fetchVars, buffer, ditem, clientVars, callVars,
                   condVars, grabVars, logVars>>

\* _send_data, the store of self._liveClients; the loop then goes on.
PruneStoreLive ==
    /\ dpc = "prune_store"
    /\ liveClients' = dtmp
    /\ dtmp' = None
    /\ dpc' = "get"
    /\ ditem' = NoItem
    /\ dlast' = "pruned"
    /\ UNCHANGED <<restVars, enabled, buffer_length, fetchVars, buffer, clientStack, callVars,
                   condVars, grabVars, recent>>

\* receiveData, called by the dispatch thread on the device itself:
\* "with self._new_data_condition:" blocks until the lock is free, then
\* the pair is stored, notify() wakes the longest-waiting thread and the
\* lock is released.
ReceiveData ==
    /\ dpc = "recv"
    /\ lockOwner = None
    /\ new_data' = Payload(ditem)
    /\ IF waiters # <<>>
       THEN /\ tpc' = [tpc EXCEPT ![Head(waiters)] = "notified"]
            /\ waiters' = Tail(waiters)
       ELSE UNCHANGED <<tpc, waiters>>
    /\ recent' = Delivered(recent, ditem)
    /\ dlast' = "delivered"
    /\ dpc' = "get"
    /\ ditem' = NoItem
    /\ UNCHANGED <<restVars, enabled, buffer_length, fetchVars, buffer, dtmp, clientVars, targ, ttmp,
                   lockOwner, lockCount, savedCount, grabVars>>

\* -------------------------------------------------------------- set_client

\* The _client setter after the push or pop: the read of
\* set(self._clientStack) and the store into self._liveClients.
ReadPcs == {"sc_read", "push_read", "pop_read"}
StorePcs == {"sc_store", "push_store", "pop_store"}
AfterRead(pc) ==
    CASE pc = "sc_read" -> "sc_store"
      [] pc = "push_read" -> "push_store"
      [] pc = "pop_read" -> "pop_store"
AfterStore(pc) ==
    CASE pc = "sc_store" -> "idle"
      [] pc = "push_store" -> "wait"
      [] pc = "pop_store" -> "return"

\* self._clientStack.append(val) and self._clientStack.pop().
Push(stack, h) == Append(stack, h)
Pop(stack) == Front(stack)

\* set_client(h), h not None, called on the RPC thread: the push.
SetClientPush(h) ==
    /\ tpc[Rpc] = "idle"
    /\ clientStack' = Push(clientStack, h)
    /\ tpc' = [tpc EXCEPT ![Rpc] = "sc_read"]
    /\ targ' = [targ EXCEPT ![Rpc] = h]
    /\ UNCHANGED <<restVars, enabled, buffer_length, fetchVars, buffer, dispVars, liveClients, ttmp,
                   condVars, grabVars, logVars>>

\* set_client(None) called on the RPC thread: the pop.  On an empty stack
\* list.pop raises IndexError and the call changes nothing.
SetClientPop ==
    /\ tpc[Rpc] = "idle"
    /\ clientStack # <<>>
    /\ clientStack' = Pop(clientStack)
    /\ tpc' = [tpc EXCEPT ![Rpc] = "sc_read"]
    /\ targ' = [targ EXCEPT ![Rpc] = None]
    /\ UNCHANGED <<restVars, enabled, buffer_length, fetchVars, buffer, dispVars, liveClients, ttmp,
                   condVars, grabVars, logVars>>

SetterReadStack(t) ==
    /\ tpc[t] \in ReadPcs
    /\ ttmp' = [ttmp EXCEPT ![t] = Range(clientStack)]
    /\ tpc' = [tpc EXCEPT ![t] = AfterRead(tpc[t])]
    /\ UNCHANGED <<restVars, enabled, buffer_length, fetchVars, buffer, dispVars, clientVars, targ,
                   condVars, grabVars, logVars>>

SetterStoreLive(t) ==
    /\ tpc[t] \in StorePcs
    /\ liveClients' = ttmp[t]
    /\ ttmp' = [ttmp EXCEPT ![t] = {}]
    /\ tpc' = [tpc EXCEPT ![t] = AfterStore(tpc[t])]
    /\ UNCHANGED <<restVars, enabled, buffer_length, fetchVars, buffer, dispVars, clientStack, targ,
                   condVars, grabVars, logVars>>

\* ---------------------------------------------------------- grab_next_data

\* A thread calls grab_next_data.
GrabCall(g) ==
    /\ tpc[g] = "idle"
    /\ tpc' = [tpc EXCEPT ![g] = "acquire"]
    /\ ngrabs' = ngrabs + 1
    /\ stackAtCall' = [stackAtCall EXCEPT ![g] = clientStack]
    /\ UNCHANGED <<restVars, enabled, buffer_length, fetchVars, buffer, dispVars, clientVars, targ,
                   ttmp, condVars, grabResult, logVars>>

\* self._new_data_condition.acquire(): the condition's lock is an RLock,
\* free or already owned by this thread.
GrabAcquire(g) ==
    /\ tpc[g] = "acquire"
    /\ lockOwner \in {None, g}
    /\ lockOwner' = g
    /\ lockCount' = lockCount + 1
    /\ tpc' = [tpc EXCEPT ![g] = "push"]
    /\ UNCHANGED <<restVars, enabled, buffer_length, fetchVars, buffer, dispVars, clientVars, targ,
                   ttmp, savedCount, waiters, new_data, grabVars, logVars>>

\* self.set_client(self): the push.
GrabPush(g) ==
    /\ tpc[g] = "push"
    /\ clientStack' = Push(clientStack, Engine)
    /\ tpc' = [tpc EXCEPT ![g] = "push_read"]
    /\ targ' = [targ EXCEPT ![g] = Engine]
    /\ UNCHANGED <<restVars, enabled, buffer_length, fetchVars, buffer, dispVars, liveClients, ttmp,
                   condVars, grabVars, logVars>>

\* self.soft_trigger() and self._new_data_condition.wait(): the thread
\* joins the waiters and gives the lock up, whatever its recursion level.
GrabWait(g) ==
    /\ tpc[g] = "wait"
    /\ waiters' = Append(waiters, g)
    /\ savedCount' = [savedCount EXCEPT ![g] = lockCount]
    /\ lockOwner' = None
    /\ lockCount' = 0
    /\ tpc' = [tpc EXCEPT ![g] = "waiting"]
    /\ UNCHANGED <<restVars, enabled, buffer_length, fetchVars, buffer, dispVars, clientVars, targ,
                   ttmp, new_data, grabVars, logVars>>

\* wait(), after the notify: the thread takes the lock again.
GrabReacquire(g) ==
    /\ tpc[g] = "notified"
    /\ lockOwner = None
    /\ lockOwner' = g
    /\ lockCount' = savedCount[g]
    /\ savedCount' = [savedCount EXCEPT ![g] = 0]
    /\ tpc' = [tpc EXCEPT ![g] = "pop"]
    /\ UNCHANGED <<restVars, enabled, buffer_length, fetchVars, buffer, dispVars, clientVars, targ,
                   ttmp, waiters, new_data, grabVars, logVars>>

\* self.set_client(None): the pop.  On an empty stack list.pop raises
\* IndexError, which ends the call.
GrabPop(g) ==
    /\ tpc[g] = "pop"
    /\ IF clientStack = <<>>
       THEN /\ tpc' = [tpc EXCEPT ![g] = "idle"]
            /\ UNCHANGED <<clientStack, targ>>
       ELSE /\ clientStack' = Pop(clientStack)
            /\ tpc' = [tpc EXCEPT ![g] = "pop_read"]
            /\ targ' = [targ EXCEPT ![g] = None]
    /\ UNCHANGED <<restVars, enabled, buffer_length, fetchVars, buffer, dispVars, liveClients, ttmp,
                   condVars, grabVars, logVars>>

\* return self._new_data.  Nothing in grab_next_data releases the lock.
GrabReturn(g) ==
    /\ tpc[g] = "return"
    /\ grabResult' = [grabResult EXCEPT ![g] = new_data]
    /\ tpc' = [tpc EXCEPT ![g] = "idle"]
    /\ UNCHANGED <<restVars, enabled, buffer_length, fetchVars, buffer, dispVars, clientVars, targ,
                   ttmp, condVars, ngrabs, stackAtCall, logVars>>

\* ------------------------------------------------------------------- Spec

\* ------------------------------------------------------------------ abort

\* The variables of the acquisition engine that the lifecycle methods
\* leave alone.
engineRest == <<fitem, nfetched, buffer_length, buffer, dispVars, clientVars,
                callVars, condVars, grabVars, logVars, raceVars, setVars, classVars>>

\* What the last completed call returned to its caller.
Returned(op, hook, out) == [op |-> op, hook |-> hook, out |-> out]

\* An abort that leaves _acquiring as it is.
AbortIgnored(acq) == acq

\* DataDevice.abort and TemplateCamera.abort: self._acquiring = False.
AfterAbort(acq) == FALSE

\* A call of abort() by the thread that calls the lifecycle methods, in
\* whatever state the device is: the method has no precondition.
Abort ==
    /\ devKind = Data
    /\ lpc = "idle"
    /\ ~destroyed
    /\ wasAcq' = acquiring
    /\ acquiring' = AfterAbort(acquiring)
    /\ lret' = Returned("abort", None, None)
    /\ disRun' = 0
    /\ nops' = nops + 1
    /\ UNCHANGED <<enabled, fetchVars, engineRest>>
    /\ UNCHANGED <<devKind, lpc, lop, preEnabled, shut, destroyed, klog>>

\* A make_safe that does nothing (Device.make_safe, which the data
\* device overrides).
MakeSafeNever(acq) == FALSE

\* TemplateCamera.make_safe: "if self._acquiring: self.abort()".
MakeSafeAborts(acq) == acq

MakeSafe ==
    /\ devKind = Data
    /\ lpc = "idle"
    /\ ~destroyed
    /\ wasAcq' = acquiring
    /\ acquiring' = IF MakeSafeAborts(acquiring) THEN AfterAbort(acquiring)
                    ELSE acquiring
    /\ lret' = Returned("make_safe", None, None)
    /\ disRun' = 0
    /\ nops' = nops + 1
    /\ UNCHANGED <<enabled, fetchVars, engineRest>>
    /\ UNCHANGED <<devKind, lpc, lop, preEnabled, shut, destroyed, klog>>

\* ---------------------------------------------------------------- disable

\* A shutdown that goes to its hook without disabling first.
ShutdownSkipsDisable == "sd_hook"

\* A call of disable(), of shutdown() or the destruction of the device, by
\* the thread that calls the lifecycle methods.  Device.shutdown begins
\* with self.disable(); DataDevice.__del__ calls self.disable() and then
\* Device.__del__, which calls self.shutdown().
ShutdownFirst == "dis_begin"

LifeCall(op) ==
    /\ lpc = "idle"
    /\ ~destroyed
    /\ lop' = IF op = "del" /\ devKind = Plain THEN "del_shutdown" ELSE op
    /\ lpc' = IF op = "shutdown" \/ (op = "del" /\ devKind = Plain)
              THEN ShutdownFirst ELSE "dis_begin"
    /\ nops' = nops + 1
    /\ UNCHANGED <<enabled, fetchVars, engineRest>>
    /\ UNCHANGED <<devKind, acquiring, lret, preEnabled, disRun, shut, destroyed,
                   klog, wasAcq>>

\* DataDevice.disable, first statement: self.enabled = False.  Device.disable
\* has no such statement and goes straight to the hook.
DisableBegin ==
    /\ lpc = "dis_begin"
    /\ preEnabled' = enabled
    /\ IF devKind = Data
       THEN enabled' = "false" /\ lpc' = "dis_join"
       ELSE lpc' = "dis_hook" /\ UNCHANGED enabled
    /\ UNCHANGED <<fetchVars, engineRest>>
    /\ UNCHANGED <<devKind, acquiring, lop, lret, disRun, shut, destroyed, klog,
                   wasAcq, nops>>

\* Thread.is_alive() of the fetch thread: started and not yet ended.
IsAlive(pc) == pc \notin {"idle", "dead"}

\* DataDevice.disable: if the fetch thread is alive, clear its run flag and
\* join it.
DisableStop ==
    /\ lpc = "dis_join"
    /\ IF IsAlive(fpc)
       THEN fetch_thread_run' = FALSE /\ lpc' = "dis_wait"
       ELSE lpc' = "dis_hook" /\ UNCHANGED fetch_thread_run
    /\ UNCHANGED <<enabled, fpc, engineRest>>
    /\ UNCHANGED <<devKind, acquiring, lop, lret, preEnabled, disRun, shut,
                   destroyed, klog, wasAcq, nops>>

\* A join that returns although the thread still runs.
JoinedAtOnce(pc) == TRUE

\* Thread.join() returns when the thread has ended.
Joined(pc) == pc = "dead"

DisableJoined ==
    /\ lpc = "dis_wait"
    /\ Joined(fpc)
    /\ lpc' = "dis_hook"
    /\ UNCHANGED <<enabled, fetchVars, engineRest>>
    /\ UNCHANGED <<devKind, acquiring, lop, lret, preEnabled, disRun, shut,
                   destroyed, klog, wasAcq, nops>>

\* Device.disable: self._on_disable().  The hook of a data device calls
\* abort(), which clears _acquiring (TemplateCamera._on_disable); the hook
\* of Device does nothing.
DisableHook ==
    /\ lpc = "dis_hook"
    /\ acquiring' = IF devKind = Data THEN AfterAbort(acquiring) ELSE acquiring
    /\ lpc' = "dis_flag"
    /\ UNCHANGED <<enabled, fetchVars, engineRest>>
    /\ UNCHANGED <<devKind, lop, lret, preEnabled, disRun, shut, destroyed, klog,
                   wasAcq, nops>>

\* Device.disable: self.enabled = False, and the return to the caller:
\* the client, shutdown() or __del__.
DisableFlag ==
    /\ lpc = "dis_flag"
    /\ enabled' = "false"
    /\ CASE lop = "disable" ->
              /\ lpc' = "idle"
              /\ lop' = None
              /\ lret' = Returned("disable", None, None)
              /\ disRun' = disRun + 1
         [] lop = "del" ->
              /\ lpc' = ShutdownFirst
              /\ lop' = "del_shutdown"
              /\ UNCHANGED <<lret, disRun>>
         [] OTHER ->
              /\ lpc' = "sd_hook"
              /\ UNCHANGED <<lop, lret, disRun>>
    /\ UNCHANGED <<fetchVars, engineRest>>
    /\ UNCHANGED <<devKind, acquiring, preEnabled, shut, destroyed, klog, wasAcq,
                   nops>>

\* Device.shutdown: self._on_shutdown(), after which shutdown and, when it
\* was called by __del__, the destruction are complete.
ShutdownHook ==
    /\ lpc = "sd_hook"
    /\ shut' = shut + 1
    /\ destroyed' = (lop = "del_shutdown")
    /\ lret' = Returned("shutdown", None, None)
    /\ disRun' = 0
    /\ lpc' = "idle"
    /\ lop' = None
    /\ UNCHANGED <<enabled, fetchVars, engineRest>>
    /\ UNCHANGED <<devKind, acquiring, preEnabled, klog, wasAcq, nops>>

\* --------------------------------------------------------- keep_acquiring

\* The calls made by the wrapped function: the setter itself or, when the
\* setter is wrapped by keep_acquiring too (TemplateCamera._set_roi), the
\* inner wrapper, which aborts and re-enables only if _acquiring is set
\* and does not re-enable when the setter raises.
SetterCalls(acq, nested, outcome) ==
    IF nested /\ acq
    THEN <<"abort", "set">> \o (IF outcome = "raise" THEN <<>> ELSE <<"on_enable">>)
    ELSE <<"set">>

\* A call of DataDevice.set_setting or DataDevice.update_settings, both
\* wrapped by keep_acquiring: "if self._acquiring: self.abort()", where
\* abort() clears _acquiring.
SettingCall(op) ==
    /\ devKind = Data
    /\ lpc = "idle"
    /\ ~destroyed
    /\ lop' = op
    /\ wasAcq' = acquiring
    /\ klog' = IF acquiring THEN <<"abort">> ELSE <<>>
    /\ acquiring' = FALSE
    /\ lpc' = "ka_func"
    /\ nops' = nops + 1
    /\ UNCHANGED <<enabled, fetchVars, engineRest>>
    /\ UNCHANGED <<devKind, lret, preEnabled, disRun, shut, destroyed>>

\* keep_acquiring, result = func(self, *args, **kwargs): Device.set_setting
\* or Device.update_settings runs the setter.  An exception (an unknown
\* name, a setting without setter, a value the setter rejects) leaves the
\* wrapper at once; otherwise a device that was acquiring goes on to
\* self._on_enable() and one that was not returns.
SettingFunc(nested, outcome) ==
    /\ lpc = "ka_func"
    /\ klog' = klog \o SetterCalls(acquiring, nested, outcome)
    /\ IF outcome = "raise"
       THEN /\ lpc' = "idle"
            /\ lop' = None
            /\ lret' = Returned(lop, "setter", "raised")
            /\ disRun' = 0
       ELSE IF wasAcq
       THEN /\ lpc' = "ka_enable"
            /\ UNCHANGED <<lop, lret, disRun>>
       ELSE /\ lpc' = "idle"
            /\ lop' = None
            /\ lret' = Returned(lop, None, None)
            /\ disRun' = 0
    /\ UNCHANGED <<enabled, fetchVars, engineRest>>
    /\ UNCHANGED <<devKind, acquiring, preEnabled, shut, destroyed, wasAcq, nops>>

\* keep_acquiring, self._on_enable(): the hook is called directly, its
\* result is dropped and its exception reaches the caller.
SettingEnable(result) ==
    /\ lpc = "ka_enable"
    /\ klog' = Append(klog, "on_enable")
    /\ acquiring' = OnEnableAcquiring(result, acquiring)
    /\ lret' = Returned(lop, result, IF result = "raise" THEN "raised" ELSE None)
    /\ disRun' = 0
    /\ lpc' = "idle"
    /\ lop' = None
    /\ UNCHANGED <<enabled, fetchVars, engineRest>>
    /\ UNCHANGED <<devKind, preEnabled, shut, destroyed, wasAcq, nops>>

\* --------------------------------------------------------------- settings

\* Everything but the settings and the thread that calls the methods.
notSettings == <<enabled, fetchVars, buffer_length, buffer, dispVars, clientVars,
                 callVars, condVars, grabVars, logVars, raceVars, classVars>>

\* self.settings.keys()
Registered == {n \in Names : settings[n].kind # None}

\* Setting.get: the getter's result, which is the value the hardware
\* holds, or without getter _last_written; an enumerated type is called
\* on it and the member's value returned, which raises ValueError for
\* None, no member having that value.
Stored(n) == IF settings[n].getter THEN settings[n].value ELSE settings[n].written
GetRaises(n) == settings[n].enum /\ Stored(n) = NoneValue
Get(n) ==
    IF settings[n].enum /\ Stored(n) # NoneValue
    THEN MemberValue(ToMember(Stored(n)))
    ELSE Stored(n)

\* Setting.describe()['cached']
Cached(n) == settings[n].written # NoneValue

\* add_setting, called by the constructor of a device class before the
\* device is served: self.settings[name] = Setting(...).  Adding a name
\* again replaces the Setting.
AddSetting(n, kind, v) ==
    /\ lpc = "idle"
    /\ nops = 0
    /\ settings' = [settings EXCEPT ![n] = Setting(kind, v, TRUE, FALSE)]
    /\ UNCHANGED <<upd, lifeVars, notSettings>>

\* update_keys as update_settings computes it: with init, the registered
\* keys that incoming has; without, those of them whose get_setting
\* differs from incoming[key].
UpdateKeys(inc, init) ==
    IF init THEN Registered \cap DOMAIN inc
    ELSE {n \in Registered \cap DOMAIN inc : Get(n) # inc[n]}

\* A call of update_settings(incoming, init) on a device that is not
\* acquiring, for which the keep_acquiring wrapper of DataDevice calls the
\* method directly.  With init, "if update_keys != my_keys: raise".
UpdateCall(inc, init) ==
    /\ lpc = "idle"
    /\ ~destroyed
    /\ ~acquiring
    /\ LET keys == UpdateKeys(inc, init)
           fails == init /\ keys # Registered
       IN /\ upd' = [NoUpdate EXCEPT !.incoming = inc,
                                     !.init = init,
                                     !.before = [n \in Registered |-> Get(n)],
                                     !.update_keys = keys,
                                     !.todo = keys,
                                     !.raised = fails]
          /\ lpc' = IF fails THEN "us_return" ELSE "us_write"
    /\ lop' = "update_settings"
    /\ nops' = nops + 1
    /\ UNCHANGED <<settings, notSettings>>
    /\ UNCHANGED <<devKind, acquiring, lret, preEnabled, disRun, shut, destroyed,
                   klog, wasAcq>>

\* "not self.settings[key].set": the attribute is the bound method
\* Setting.set, which every Setting has and which is true.
HasNoSetMethod(n) == FALSE

\* One turn of the first loop, "for key in update_keys", in the order the
\* set yields its keys.  A key that is unknown or has no set method is
\* marked NotImplemented and removed from update_keys, the set being
\* iterated, for which the next turn of the loop raises RuntimeError; a
\* readonly key is skipped; for any other key Setting.set raises
\* NotImplementedError if set_func is None and otherwise calls the
\* setter, after which the hardware holds the value or one it adjusted
\* it to.
UpdateWrite ==
    /\ lpc = "us_write"
    /\ IF upd.todo = {}
       THEN /\ upd' = [upd EXCEPT !.todo = upd.update_keys]
            /\ lpc' = "us_read"
            /\ UNCHANGED settings
       ELSE \E n \in upd.todo :
              LET rest == upd.todo \ {n} IN
              IF n \notin Registered \/ HasNoSetMethod(n)
              THEN /\ upd' = [upd EXCEPT
                                !.results = (n :> NotImplemented) @@ upd.results,
                                !.update_keys = upd.update_keys \ {n},
                                !.todo = rest,
                                !.raised = rest # {}]
                   /\ lpc' = IF rest # {} THEN "us_return" ELSE "us_write"
                   /\ UNCHANGED settings
              ELSE IF settings[n].kind = ReadOnly
              THEN /\ upd' = [upd EXCEPT !.todo = rest]
                   /\ UNCHANGED <<lpc, settings>>
              ELSE IF settings[n].kind = NoSetter
              THEN /\ upd' = [upd EXCEPT !.raised = TRUE]
                   /\ lpc' = "us_return"
                   /\ UNCHANGED settings
              ELSE \E w \in Values :
                     /\ settings' = [settings EXCEPT ![n].value = w]
                     /\ upd' = [upd EXCEPT
                                  !.todo = rest,
                                  !.calls = Append(upd.calls,
                                      [call |-> "set", name |-> n,
                                       value |-> upd.incoming[n]])]
                     /\ UNCHANGED lpc
    /\ UNCHANGED notSettings
    /\ UNCHANGED <<devKind, acquiring, lop, lret, preEnabled, disRun, shut,
                   destroyed, klog, wasAcq, nops>>

\* What the caller gets.  Device.update_settings ends with "return
\* results"; DataDevice.update_settings calls it without returning its
\* value, and so returns None.
ReturnValue(k, results) == IF k = Data THEN NoValue ELSE Mapping(results)

\* One turn of the second loop, "results[key] = self.settings[key].get()",
\* and after the last turn the return statement.
UpdateRead ==
    /\ lpc = "us_read"
    /\ IF upd.todo = {}
       THEN /\ upd' = [upd EXCEPT !.ret = ReturnValue(devKind, upd.results)]
            /\ lpc' = "us_return"
       ELSE \E n \in upd.todo :
              /\ upd' = [upd EXCEPT
                           !.results = (n :> Get(n)) @@ upd.results,
                           !.todo = upd.todo \ {n},
                           !.calls = Append(upd.calls,
                               [call |-> "get", name |-> n, value |-> Get(n)])]
              /\ UNCHANGED lpc
    /\ UNCHANGED <<settings, notSettings>>
    /\ UNCHANGED <<devKind, acquiring, lop, lret, preEnabled, disRun, shut,
                   destroyed, klog, wasAcq, nops>>

\* The call is over: its value or its exception has reached the caller.
UpdateReturn ==
    /\ lpc = "us_return"
    /\ lret' = Returned("update_settings", None,
                        IF upd.raised THEN "raised" ELSE None)
    /\ upd' = NoUpdate
    /\ lpc' = "idle"
    /\ lop' = None
    /\ disRun' = 0
    /\ UNCHANGED <<settings, notSettings>>
    /\ UNCHANGED <<devKind, acquiring, preEnabled, shut, destroyed, klog, wasAcq,
                   nops>>

\* ------------------------------------------------------------ Setting.set

\* Setting(name, dtype, get_func, set_func, values), registered by the
\* constructor of a device class: with or without getter, with or
\* without setter, with or without an enumerated type as values.
\* Without getter, _set is the function w, whatever set_func is.
NewSetting(n, kind, getter, enum, v) ==
    /\ lpc = "idle"
    /\ nops = 0
    /\ settings' = [settings EXCEPT ![n] = Setting(kind, v, getter, enum)]
    /\ UNCHANGED <<upd, lifeVars, notSettings>>

\* "if self._set is None: raise NotImplementedError", _set being
\* set_func when there is a getter and the function w when there is none.
SetIsNone(s) == s.getter /\ s.kind = NoSetter

\* set_setting(name, value) -> Setting.set(value).  An unknown name
\* raises KeyError.  With an enumerated type the value becomes its
\* member.  Then _set is called: set_func, or w, which stores the value
\* ("self._last_written = value") and then calls set_func, raising
\* TypeError when set_func is None.  The setter returns (ok), after which
\* the hardware holds the value or one it adjusted it to, or raises.
SetSetting(n, v, ok) ==
    /\ lpc = "idle"
    /\ ~destroyed
    /\ LET s == settings[n]
           value == IF s.enum THEN ToMember(v) ELSE v
           called == s.kind # NoSetter /\ ok
           fails == n \notin Registered \/ SetIsNone(s) \/ ~called
       IN /\ IF n \notin Registered \/ SetIsNone(s)
             THEN UNCHANGED settings
             ELSE \E w \in Values :
                    settings' = [settings EXCEPT
                       ![n].written = IF s.getter THEN s.written ELSE value,
                       ![n].value = IF called THEN w ELSE s.value]
          /\ upd' = [NoUpdate EXCEPT !.incoming = (n :> v), !.raised = fails]
          /\ lret' = Returned("set", None, IF fails THEN "raised" ELSE None)
    /\ disRun' = 0
    /\ nops' = nops + 1
    /\ UNCHANGED notSettings
    /\ UNCHANGED <<devKind, acquiring, lpc, lop, preEnabled, shut, destroyed,
                   klog, wasAcq>>

\* ------------------------------------------- AlpaoDeformableMirror.set_trigger

\* _supported_TriggerModes
SupportedTriggerModes == {"ONCE", "START"}

\* The keys of _TriggerType_to_asdkTriggerIn
SupportedTriggerTypes == {"SOFTWARE", "RISING_EDGE", "FALLING_EDGE"}

\* A mirror that takes a software trigger in any supported mode.
SoftwareInAnyMode(ttype, tmode) == FALSE

\* "ttype == TriggerType.SOFTWARE and tmode != TriggerMode.ONCE"
SoftwareNotOnce(ttype, tmode) == ttype = "SOFTWARE" /\ tmode # "ONCE"

\* _raise_if_error(status): raises when the status is not SUCCESS and the
\* error stack has a message.
RaisesIfError(status) == status # "SUCCESS"

\* set_trigger(ttype, tmode), the SDK answering asdk.Set with status.
\* The mode and the software combination are tested first; then
\* _trigger_mode is assigned; then the type is looked up, the SDK called
\* and its status tested, each of which may raise; _trigger_type is
\* assigned last.
SetTrigger(ttype, tmode, status) ==
    /\ devKind = "mirror"
    /\ lpc = "idle"
    /\ LET rejected == tmode \notin SupportedTriggerModes
                           \/ SoftwareNotOnce(ttype, tmode)
           fails == \/ rejected
                    \/ ttype \notin SupportedTriggerTypes
                    \/ RaisesIfError(status)
       IN /\ attrs' = [attrs EXCEPT
                         !.trigger_mode = IF rejected THEN @ ELSE tmode,
                         !.trigger_type = IF fails THEN @ ELSE ttype,
                         !.ttype = ttype,
                         !.tmode = tmode]
          /\ lret' = Returned("set_trigger", status,
                              IF fails THEN "raised" ELSE None)
    /\ nops' = nops + 1
    /\ UNCHANGED <<enabled, fetchVars, buffer_length, buffer, dispVars,
                   clientVars, callVars, condVars, grabVars, logVars, raceVars,
                   setVars>>
    /\ UNCHANGED <<devKind, acquiring, lpc, lop, preEnabled, disRun, shut,
                   destroyed, klog, wasAcq>>

\* ------------------------------------------------------------- lock_comms

\* The device is a serial device, such as the DeepStar laser, whose
\* methods that talk to the hardware are wrapped by lock_comms.

\* The variables the wrapped operations of a serial device leave alone.
notSerial == <<enabled, fetchVars, buffer_length, buffer, dispVars, clientVars,
               targ, ttmp, condVars, grabVars, logVars, raceVars, setVars>>

\* A thread of the server calls a wrapped operation.
LockedCall(t) ==
    /\ devKind = "serial"
    /\ tpc[t] = "idle"
    /\ tpc' = [tpc EXCEPT ![t] = "lc_acquire"]
    /\ nops' = nops + 1
    /\ UNCHANGED <<attrs, notSerial>>
    /\ UNCHANGED <<devKind, acquiring, lpc, lop, lret, preEnabled, disRun, shut,
                   destroyed, klog, wasAcq>>

\* A lock that its owner cannot take again (threading.Lock).
FreeOnly(owner, t) == owner = None

\* threading.RLock.acquire: the lock is free, or the thread owns it.
CanAcquire(owner, t) == owner = None \/ owner = t

\* "with self._comms_lock:" on entry.
LockAcquire(t) ==
    /\ tpc[t] = "lc_acquire"
    /\ CanAcquire(attrs.comms_owner, t)
    /\ attrs' = [attrs EXCEPT !.comms_owner = t, !.comms_count = @ + 1]
    /\ tpc' = [tpc EXCEPT ![t] = "lc_flush"]
    /\ UNCHANGED notSerial
    /\ UNCHANGED lifeVars

\* self.connection.flushInput(), which returns or raises.
FlushInput(t, ok) ==
    /\ tpc[t] = "lc_flush"
    /\ attrs' = [attrs EXCEPT !.line = t]
    /\ tpc' = [tpc EXCEPT ![t] = IF ok THEN "lc_func" ELSE "lc_raise"]
    /\ UNCHANGED notSerial
    /\ UNCHANGED lifeVars

\* func(self, ...): it writes a command and reads the answer ("io"),
\* calls another wrapped operation ("nested", as _do_enable and
\* _do_get_power call get_is_on), returns or raises.
LockedFunc(t, what) ==
    /\ tpc[t] = "lc_func"
    /\ what = "nested" => attrs.comms_count < MaxNest
    /\ tpc' = [tpc EXCEPT ![t] = CASE what = "io" -> "lc_func"
                                   [] what = "nested" -> "lc_acquire"
                                   [] what = "return" -> "lc_exit"
                                   [] OTHER -> "lc_raise"]
    /\ UNCHANGED <<attrs, notSerial>>
    /\ UNCHANGED lifeVars

\* "with self._comms_lock:" on exit, by return or by exception:
\* RLock.release.  The thread is then back in the operation that called
\* this one, which an exception leaves in turn, or back at the caller.
LockExit(t) ==
    /\ tpc[t] \in {"lc_exit", "lc_raise"}
    /\ LET count == attrs.comms_count - 1 IN
       /\ attrs' = [attrs EXCEPT !.comms_count = count,
                                 !.comms_owner = IF count = 0 THEN None ELSE @]
       /\ tpc' = [tpc EXCEPT ![t] = IF count = 0 THEN "idle"
                                    ELSE IF tpc[t] = "lc_raise" THEN "lc_raise"
                                    ELSE "lc_func"]
       /\ lret' = IF count = 0
                  THEN Returned("lock_comms", None,
                                IF tpc[t] = "lc_raise" THEN "raised" ELSE None)
                  ELSE lret
    /\ UNCHANGED notSerial
    /\ UNCHANGED <<devKind, acquiring, lpc, lop, preEnabled, disRun, shut,
                   destroyed, klog, wasAcq, nops>>

\* ------------------------------------------------------- CameraDevice ROI

\* The device is a camera whose _set_roi and _get_roi hooks store and
\* return the ROI as it is on the hardware.

\* The variables the shape methods of a camera leave alone.
notCamera == <<enabled, fetchVars, buffer_length, buffer, dispVars, clientVars,
               callVars, condVars, grabVars, logVars, raceVars, setVars>>

\* set_transform: lr, ud, rot are the readout transform xor the given
\* one, and the two flips are inverted when both rotate.
Combined(readout, client) ==
    LET both == readout[3] /\ client[3] IN
    <<(readout[1] # client[1]) # both,
      (readout[2] # client[2]) # both,
      readout[3] # client[3]>>

\* set_transform(transform), called by the client.
SetTransform(transform) ==
    /\ devKind = "camera"
    /\ lpc = "idle"
    /\ attrs' = [attrs EXCEPT
                   !.client_transform = transform,
                   !.transform = Combined(attrs.readout_transform, transform)]
    /\ lret' = Returned("set_transform", None, None)
    /\ nops' = nops + 1
    /\ UNCHANGED notCamera
    /\ UNCHANGED <<devKind, acquiring, lpc, lop, preEnabled, disRun, shut,
                   destroyed, klog, wasAcq>>

\* _set_readout_transform(new_transform), called by the device class
\* when the readout mode changes: it stores the transform and calls
\* set_transform(self._client_transform).
SetReadoutTransform(transform) ==
    /\ devKind = "camera"
    /\ lpc = "idle"
    /\ attrs' = [attrs EXCEPT
                   !.readout_transform = transform,
                   !.transform = Combined(transform, attrs.client_transform)]
    /\ lret' = Returned("set_readout_transform", None, None)
    /\ nops' = nops + 1
    /\ UNCHANGED notCamera
    /\ UNCHANGED <<devKind, acquiring, lpc, lop, preEnabled, disRun, shut,
                   destroyed, klog, wasAcq>>

\* What set_roi hands to _set_roi: with a rotation width and height are
\* exchanged, left and top are not.
ToHardware(roi, transform) ==
    IF transform[3] THEN <<roi[1], roi[2], roi[4], roi[3]>> ELSE roi

\* What get_roi makes of the ROI that _get_roi returns: with a rotation
\* left and top are exchanged, and width and height.
FromHardware(roi, transform) ==
    IF transform[3] THEN <<roi[2], roi[1], roi[4], roi[3]>> ELSE roi

\* get_roi()
GetRoi == FromHardware(attrs.roi, attrs.transform)

\* set_roi(roi) with non-zero width and height, for which the defaults
\* from the sensor shape are not taken.
SetRoi(roi) ==
    /\ devKind = "camera"
    /\ lpc = "idle"
    /\ attrs' = [attrs EXCEPT !.roi = ToHardware(roi, attrs.transform),
                              !.asked = roi]
    /\ lret' = Returned("set_roi", None, None)
    /\ nops' = nops + 1
    /\ UNCHANGED notCamera
    /\ UNCHANGED <<devKind, acquiring, lpc, lop, preEnabled, disRun, shut,
                   destroyed, klog, wasAcq>>

FetchStep(limit) ==
    \/ FetchLoopStart
    \/ \E outcome \in Kinds \cup {None} :
           /\ outcome # None => nfetched < limit
           /\ FetchData(outcome)
    \/ PutTag
    \/ PutEnqueue

DispatchStep ==
    \/ DispatchGet
    \/ DispatchCheck
    \/ \E outcome \in SendOutcomes : DispatchSend(outcome)
    \/ PruneStoreStack
    \/ PruneReadLive
    \/ PruneStoreLive

SetClientStep(limit) ==
    \/ \E h \in Clients : Len(clientStack) < limit /\ SetClientPush(h)
    \/ SetClientPop
    \/ SetterReadStack(Rpc)
    \/ SetterStoreLive(Rpc)

GrabStep(g) ==
    \/ ngrabs < MaxGrab /\ GrabCall(g)
    \/ GrabAcquire(g)
    \/ GrabPush(g)
    \/ SetterReadStack(g)
    \/ SetterStoreLive(g)
    \/ GrabWait(g)
    \/ GrabReacquire(g)
    \/ GrabPop(g)
    \/ GrabReturn(g)

\* The streaming engine: the two loops and an RPC thread that subscribes
\* and unsubscribes remote clients.
Next ==
    \/ Enable("true")
    \/ FetchStep(MaxFetch)
    \/ DispatchStep
    \/ SetClientStep(MaxStack)

Spec == Init /\ [][Next]_vars

\* The engine with callers of grab_next_data on two threads and an RPC
\* thread subscribing a remote client, on the default unbounded buffer.
GrabInit == Init /\ buffer_length = 0

GrabNext ==
    \/ Enable("true")
    \/ FetchStep(GrabMaxFetch)
    \/ DispatchStep
    \/ ReceiveData
    \/ SetClientStep(GrabMaxStack)
    \/ \E g \in Grabbers : GrabStep(g)

GrabSpec == GrabInit /\ [][GrabNext]_vars

\* The engine with one thread that calls grab_next_data, one call after
\* the other, and no remote client.
RegrabNext ==
    \/ Enable("true")
    \/ FetchStep(MaxFetch)
    \/ DispatchGet
    \/ DispatchCheck
    \/ \E outcome \in {"ok", "process_error"} : DispatchSend(outcome)
    \/ ReceiveData
    \/ GrabStep("g1")

RegrabSpec == GrabInit /\ [][RegrabNext]_vars

\* The lifecycle of a device: one thread calls enable, disable, shutdown,
\* the settings methods and finally destroys the device, while the two
\* loops of a data device run.  No client is subscribed.
LifeInit == \E k \in DeviceKinds : DeviceInit(k) /\ buffer_length = 0

LifeStep ==
    \/ \E op \in {"disable", "shutdown", "del"} : nops < MaxOps /\ LifeCall(op)
    \/ nops < MaxOps /\ Abort
    \/ nops < MaxOps /\ MakeSafe
    \/ DisableBegin
    \/ DisableStop
    \/ DisableJoined
    \/ DisableHook
    \/ DisableFlag
    \/ ShutdownHook
    \/ \E op \in {"set_setting", "update_settings"} : nops < MaxOps /\ SettingCall(op)
    \/ \E nested \in BOOLEAN, outcome \in {"true", "raise"} : SettingFunc(nested, outcome)
    \/ \E result \in HookResults : SettingEnable(result)

LifeNext ==
    \/ \E result \in HookResults : Enable(result)
    \/ \E result \in HookResults : PlainEnable(result)
    \/ FetchStep(LifeMaxFetch)
    \/ DispatchGet
    \/ DispatchCheck
    \/ LifeStep

LifeSpec == LifeInit /\ [][LifeNext]_vars

\* Calls of enable() on the threads of the server, with the two loops.
EnableStep(t) ==
    \/ nops < MaxOps /\ EnableCall(t)
    \/ EnableTestFetch(t)
    \/ EnableStartFetch(t)
    \/ EnableTestDispatch(t)
    \/ EnableStartDispatch(t)
    \/ \E result \in HookResults : EnableHook(t, result)

RaceNext ==
    \/ \E t \in Threads : EnableStep(t)
    \/ FetchStep(LifeMaxFetch)
    \/ DispatchGet
    \/ DispatchCheck

RaceSpec == GrabInit /\ [][RaceNext]_vars

\* The settings of a device: its constructor registers them, then a
\* client calls update_settings.
SettingsNext ==
    \/ \E n \in Names, kind \in SettingKinds, v \in Values : AddSetting(n, kind, v)
    \/ \E inc \in IncomingMaps, init \in BOOLEAN :
           nops < MaxOps /\ UpdateCall(inc, init)
    \/ UpdateWrite
    \/ UpdateRead
    \/ UpdateReturn

SettingsSpec == LifeInit /\ [][SettingsNext]_vars

\* The Setting objects of a device: its constructor registers them, then
\* a client calls set_setting.
RegistryNext ==
    \/ \E n \in Names, kind \in {Writable, NoSetter}, getter \in BOOLEAN,
          enum \in BOOLEAN, v \in Values : NewSetting(n, kind, getter, enum, v)
    \/ \E n \in Names, v \in Values, ok \in BOOLEAN :
           nops < MaxOps /\ SetSetting(n, v, ok)

RegistrySpec == LifeInit /\ [][RegistryNext]_vars

\* An Alpao mirror and the calls of set_trigger a client makes.
MirrorNext ==
    \E ttype \in TriggerType, tmode \in TriggerMode, status \in SdkStatus :
        nops < MaxOps /\ SetTrigger(ttype, tmode, status)

MirrorSpec == DeviceInit("mirror") /\ [][MirrorNext]_vars

\* A serial device and the threads of the server that call its wrapped
\* operations.
SerialNext ==
    \E t \in Threads :
        \/ nops < MaxOps /\ LockedCall(t)
        \/ LockAcquire(t)
        \/ \E ok \in BOOLEAN : FlushInput(t, ok)
        \/ \E what \in {"io", "nested", "return", "raise"} : LockedFunc(t, what)
        \/ LockExit(t)

SerialSpec == DeviceInit("serial") /\ [][SerialNext]_vars

\* A camera whose client and device class set transforms and whose
\* client sets the ROI.
CameraNext ==
    \/ \E transform \in Transforms : nops < MaxOps /\ SetTransform(transform)
    \/ \E transform \in Transforms : nops < MaxOps /\ SetReadoutTransform(transform)
    \/ \E roi \in Rois : nops < MaxOps /\ SetRoi(roi)

CameraSpec == DeviceInit("camera") /\ [][CameraNext]_vars

\* ================================================================ claims

\* The items between the fetch hook and the dispatch body, oldest first:
\* the one the dispatch loop holds, the buffer, the one _put holds.
InFlight ==
    (IF dpc \in {"check", "send", "recv", "prune_stack", "prune_live", "prune_store"}
     THEN <<ditem>> ELSE <<>>)
    \o buffer
    \o (IF fpc \in {"tag", "put"} THEN <<fitem>> ELSE <<>>)

\* Every fetched item not yet dispatched is in flight, once, in fetch order.
NothingLost ==
    \A i \in 1..Len(InFlight) : InFlight[i].id = nfetched - Len(InFlight) + i

\* Each client has received its items in fetch order, none twice.
InFetchOrder ==
    \A h \in Handles : recent[h].last = 0 \/ recent[h].prev < recent[h].last

\* C1 (as stated): whatever the fetch hook raises, the fetch loop goes on
\* polling, the iteration's one error payload keeps its place in the
\* stream, and the payload is handed to the dispatch body and reaches the
\* client instead of being lost with the dispatch loop.
C1_RaiseReachesClient ==
    /\ fpc # "dead"
    /\ NothingLost
    /\ InFetchOrder
    /\ dlast # "died"

\* C2: the items delivered to one client are delivered in the order they
\* were fetched, none reordered and none twice, whatever set_client calls
\* interleave with the two loops.
C2_DeliveryInFetchOrder == InFetchOrder

\* A client has received two items while a second subscription was pushed.
C2_Witness ==
    \E c \in Clients : recent[c].prev >= 1 /\ Len(clientStack) >= 2

\* C3: a bounded buffer never holds more than buffer_length items, so a put
\* on a full buffer waits for the dispatch loop; every fetched item not
\* yet dispatched is still in flight, in order.
C3_BoundedBuffer ==
    /\ buffer_length > 0 => Len(buffer) <= buffer_length
    /\ NothingLost

\* The fetch loop stands in put() on a full bounded buffer.
C3_Witness ==
    /\ fpc = "put"
    /\ buffer_length > 0
    /\ Len(buffer) = buffer_length

\* C4: when the dispatch loop tests an item whose client is not in
\* live_clients, it skips the item: nothing is delivered, the loop is at
\* its next get(), and client_stack and live_clients are as they were.
C4_StaleItemSkipped ==
    [][(dpc = "check" /\ dpc' # "check" /\ ditem.client \notin liveClients)
       => /\ dpc' = "get"
          /\ dlast' = "dropped"
          /\ recent' = recent
          /\ clientVars' = clientVars]_vars

\* An item tagged with a remote client was skipped because the client had
\* been removed after the item was tagged; the client is still removed.
C4_Witness ==
    /\ dlast = "dropped"
    /\ dpc = "get"
    /\ ditem.client \in Clients
    /\ ditem.client \notin liveClients
    /\ ditem.client \notin Range(clientStack)

\* C5 (as stated): pruning the unreachable client c takes c, and nothing
\* but c, out of client_stack and out of live_clients, so the other
\* clients keep their places, and the loop goes on with the next item.
C5_PruneRemovesOnlyClient ==
    [][/\ (dpc = "prune_stack" /\ dpc' # "prune_stack")
            => clientStack' = Without(clientStack, ditem.client)
       /\ (dpc = "prune_store" /\ dpc' # "prune_store")
            => /\ liveClients' = liveClients \ {ditem.client}
               /\ dpc' = "get"]_vars

\* C6: when the transform or the delivery of an item fails with an error
\* other than client-unreachable, the dispatch loop is at its next get(),
\* and client_stack, live_clients, the buffer and the fetch loop are as
\* they were: only that delivery is lost.
C6_FailureLosesOneDelivery ==
    [][(dpc = "send" /\ dpc' # "send" /\ dlast' = "failed")
       => /\ dpc' = "get"
          /\ clientVars' = clientVars
          /\ buffer' = buffer
          /\ fetchVars' = fetchVars
          /\ recent' = recent]_vars

\* After a failed delivery the loop is at its get() with the next item
\* buffered and the client still subscribed.
C6_Witness ==
    /\ dlast = "failed"
    /\ dpc = "get"
    /\ buffer # <<>>
    /\ clientStack # <<>>

\* C7 (as stated): whatever the message of an error object, handling it
\* leaves the dispatch loop running.
C7_ErrorLeavesLoopRunning ==
    [][(dpc = "send" /\ dpc' # "send" /\ IsError(ditem.kind))
       => dpc' # "dead"]_vars

\* No thread waits for the lock of the new-data condition while the
\* thread that owns the lock is outside every call of grab_next_data.
LockHeldAfterReturn ==
    /\ lockOwner \in Grabbers
    /\ tpc[lockOwner] = "idle"

\* C8 (as stated): neither a caller of grab_next_data nor the dispatch
\* thread in receiveData is kept waiting by a call of grab_next_data that
\* has already returned.
C8_NobodyBlockedByReturnedGrab ==
    LockHeldAfterReturn
        => /\ dpc # "recv"
           /\ \A g \in Grabbers \ {lockOwner} : tpc[g] \notin {"acquire", "notified"}

\* C9 (as stated): when grab_next_data returns, it returns a pair the
\* dispatch loop delivered and client_stack is what it was at the call.
C9_GrabRestoresStack ==
    [][\A g \in Grabbers :
          (tpc[g] = "return" /\ tpc'[g] = "idle")
              => /\ clientStack' = stackAtCall[g]
                 /\ grabResult'[g] # NoData]_vars

\* C10 (as stated): client_stack changes only at its top, by the push or
\* the pop of a set_client call, or by the pruning of one unreachable
\* client; so a pushed handle stays on the stack, and is active until the
\* next push, as long as it is neither popped nor found unreachable.
C10_StackDiscipline ==
    [][clientStack' # clientStack
       => \/ \E h \in Handles : clientStack' = Push(clientStack, h)
          \/ clientStack # <<>> /\ clientStack' = Pop(clientStack)
          \/ /\ dpc = "prune_stack"
             /\ clientStack' = Without(clientStack, ditem.client)]_vars

\* C11 (as stated): whenever no set_client call and no pruning is under
\* way, live_clients is the set of the handles on client_stack.
C11_LiveIsSetOfStack ==
    (tpc[Rpc] = "idle" /\ dpc \notin {"prune_stack", "prune_live", "prune_store"})
        => liveClients = Range(clientStack)

SettingOps == {"set_setting", "update_settings"}

\* C12 (as stated): a set_setting call on an acquiring data device makes
\* exactly one abort, then the setter invocation, then exactly one call
\* of the enable hook, also when the setter is itself wrapped.
C12_OneAbortOneEnable ==
    (lpc = "idle" /\ lret.op = "set_setting" /\ wasAcq)
        => klog = <<"abort", "set", "on_enable">>

\* C13 (as stated): while the setter of a setting change on an acquiring
\* data device runs, and until the enable hook has run again, the fetch
\* loop is stopped, so no _fetch_data poll can execute.
C13_FetchStoppedDuringSetter ==
    (lpc \in {"ka_func", "ka_enable"} /\ wasAcq) => ~IsAlive(fpc)

\* C14 (as stated): when set_setting or update_settings ends, by return
\* or by an exception of the setter, the device is acquiring if and only
\* if it was when the call began, and a device that was not acquiring
\* has seen neither abort nor the enable hook.
C14_AcquiringPreserved ==
    (lpc = "idle" /\ lret.op \in SettingOps /\ lret.hook \notin {"false", "raise"})
        => /\ acquiring = wasAcq
           /\ ~wasAcq => klog = <<"set">>

\* C15 (as stated): when the enable hook raised or returned false, the
\* caller of enable() got no exception and no true flag, and the device
\* is not enabled.
C15_EnableFailureIsFalse ==
    (lpc = "idle" /\ lret.op = "enable" /\ lret.hook \in {"false", "raise"})
        => /\ lret.out \notin {"raised", "true"}
           /\ enabled # "true"

\* C16: a disable() that follows a disable() never waits for the fetch
\* thread, and after each of them the call has returned without an
\* exception and the device is not enabled.
C16_DisableTwice ==
    disRun >= 1
        => /\ lop = "disable" => lpc # "dis_wait"
           /\ lpc = "idle" => (enabled = "false" /\ lret.out # "raised")

\* disable() has returned twice in a row on a data device whose fetch
\* thread had been running.
C16_Witness ==
    /\ disRun >= 2
    /\ lpc = "idle"
    /\ devKind = Data
    /\ fpc = "dead"

\* C17 (as stated): while the _on_disable hook runs, the enabled flag has
\* the value it had when disable() was called.
C17_HookBeforeFlag ==
    lpc = "dis_hook" => enabled = preEnabled

\* C18: when _on_shutdown runs, disable() has run before it: the device
\* is not enabled and the fetch thread, if there was one, has been joined.
C18_ShutdownAfterDisable ==
    lpc = "sd_hook" => (enabled = "false" /\ ~IsAlive(fpc))

\* shutdown() of an enabled data device is about to run _on_shutdown,
\* after the join of the fetch thread.
C18_Witness ==
    /\ lpc = "sd_hook"
    /\ lop = "shutdown"
    /\ devKind = Data
    /\ fpc = "dead"
    /\ lret.op = "enable"

\* C19 (as stated): once the device is destroyed, _on_shutdown has run
\* exactly once.
C19_ShutdownHookOnce ==
    destroyed => shut = 1

\* C20 (as stated): once shutdown() has completed, the device is never
\* enabled again and no fetch loop runs.
C20_ShutdownTerminal ==
    shut >= 1 => (enabled # "true" /\ ~IsAlive(fpc))

\* A step in which a client's call of abort() runs and returns.
AbortReturns ==
    /\ lpc = "idle"
    /\ lpc' = "idle"
    /\ nops' # nops
    /\ lret'.op = "abort"

\* C21: a call of abort(), by a client in any state of the device or by
\* the _on_disable hook inside disable(), raises nothing, leaves the
\* device not acquiring and leaves the enabled flag, client_stack and the
\* dispatch buffer as they were.
C21_AbortSafeInAnyState ==
    [][/\ AbortReturns => lret'.out # "raised"
       /\ (AbortReturns \/ (devKind = Data /\ lpc = "dis_hook" /\ lpc' # "dis_hook"))
          => /\ ~acquiring'
             /\ enabled' = enabled
             /\ clientStack' = clientStack
             /\ buffer' = buffer]_vars

\* abort() has returned on an enabled, acquiring device with an item in
\* the dispatch buffer.
C21_Witness ==
    /\ lret.op = "abort"
    /\ wasAcq
    /\ ~acquiring
    /\ enabled = "true"
    /\ buffer # <<>>

\* C22 (as stated): once a client's abort() has returned, and until the
\* next lifecycle or settings call, the fetch loop polls no more: when it
\* comes to its next poll boundary it ends instead of calling _fetch_data.
C22_FetchLoopEndsAfterAbort ==
    [][(lret.op = "abort" /\ lpc = "idle" /\ fpc = "poll" /\ fpc' # "poll")
       => fpc' = "dead"]_vars

\* A step in which a client's call of make_safe() runs and returns.
MakeSafeReturns ==
    /\ lpc = "idle"
    /\ lpc' = "idle"
    /\ nops' # nops
    /\ lret'.op = "make_safe"

C24_AcquiringImpliesEnabled ==
    (devKind = Data /\ acquiring) => enabled = "true"

\* The fetch loops and the dispatch loops that are running.
FetchLoops == (IF IsAlive(fpc) THEN 1 ELSE 0) + extraFetch
DispatchLoops == (IF IsAlive(dpc) THEN 1 ELSE 0) + extraDisp

\* C25 (as stated): whatever calls of enable() the threads of the server
\* make, at most one fetch loop and at most one dispatch loop run.
C25_OneLoopOfEachKind ==
    FetchLoops <= 1 /\ DispatchLoops <= 1

\* C26 (as stated): an item carries the client that was active when the
\* fetch hook returned its data: the active client does not change
\* between the return of the hook and the read of _client by _put, _put
\* tags the item with the active client, the tag is kept while put()
\* waits on a full buffer, and the buffer changes only by the enqueue of
\* the tagged item and the removal of its oldest item.
C26_TaggedWithClientAtCapture ==
    [][/\ (fpc = "tag" /\ fpc' = "tag")
            => ActiveClient(clientStack') = ActiveClient(clientStack)
       /\ (fpc = "tag" /\ fpc' = "put")
            => fitem'.client = ActiveClient(clientStack)
       /\ (fpc = "put" /\ fpc' = "put") => fitem' = fitem
       /\ buffer' # buffer
            => \/ fpc = "put" /\ buffer' = Enqueue(buffer, fitem)
               \/ buffer # <<>> /\ buffer' = Tail(buffer)]_vars

\* The setter calls and the read-back calls an update_settings call made.
SetCalls == {i \in 1..Len(upd.calls) : upd.calls[i].call = "set"}
GetCalls == {i \in 1..Len(upd.calls) : upd.calls[i].call = "get"}

\* The setter of n was called once, with incoming's value.
SetOnce(n) ==
    /\ Cardinality({i \in SetCalls : upd.calls[i].name = n}) = 1
    /\ \A i \in SetCalls :
          upd.calls[i].name = n => upd.calls[i].value = upd.incoming[n]

\* C27 (as stated): update_settings(incoming, init=true) raises without
\* having called a setter when incoming lacks a registered name, and
\* otherwise returns having called the setter of every registered setting
\* once with incoming's value.
C27_InitNeedsEveryKey ==
    (lpc = "us_return" /\ upd.init)
        => IF Registered \subseteq DOMAIN upd.incoming
           THEN ~upd.raised /\ \A n \in Registered : SetOnce(n)
           ELSE upd.raised /\ SetCalls = {}

\* The registered keys of incoming whose value, when the call began,
\* differed from incoming's.
Changed ==
    {n \in DOMAIN upd.before \cap DOMAIN upd.incoming :
        upd.before[n] # upd.incoming[n]}

\* C28 (as stated): when update_settings(incoming, init=false) ends, it
\* has called the setter of every registered key of incoming whose value
\* differed from incoming's, once, and no other setter.
C28_OnlyChangedKeysAreSet ==
    (lpc = "us_return" /\ ~upd.init)
        => /\ {upd.calls[i].name : i \in SetCalls} = Changed
           /\ \A n \in Changed : SetOnce(n)

\* The keys of incoming that update_settings cannot apply: unknown names
\* and settings registered without setter.
Unsettable ==
    {n \in DOMAIN upd.incoming : n \notin Registered \/ settings[n].kind = NoSetter}

\* C29 (as stated): unless init is true and a registered key is missing,
\* update_settings returns; every key of incoming that is unknown or has
\* no setter is in the result, marked NotImplemented; and the setter of
\* every writable key of the update set has been called.
C29_UnsettableKeysAreReported ==
    (lpc = "us_return" /\ ~(upd.init /\ ~(Registered \subseteq DOMAIN upd.incoming)))
        => /\ ~upd.raised
           /\ \A n \in Unsettable :
                 n \in DOMAIN upd.results /\ upd.results[n] = NotImplemented
           /\ \A n \in UpdateKeys(upd.incoming, upd.init) :
                 settings[n].kind = Writable => SetOnce(n)

\* C30 (as stated): when update_settings returns, every setter call it
\* made came before every read-back call, and the caller has a mapping
\* from every key of the update set to the value its getter returns after
\* all the writes, on a plain device and on a data device.
C30_WriteThenReadBack ==
    (lpc = "us_return" /\ ~upd.raised)
        => /\ \A i \in SetCalls, j \in GetCalls : i < j
           /\ upd.ret = Mapping([n \in upd.update_keys |-> Get(n)])

\* The step is a call of set_setting(n, ...), from call to return.
SetReturns(n) ==
    /\ lpc = "idle" /\ lpc' = "idle"
    /\ nops' # nops
    /\ lret'.op = "set"
    /\ DOMAIN upd'.incoming = {n}

\* C31 (as stated): set on a setting registered without setter, with a
\* getter or without one, fails and changes nothing: what a following get
\* returns and the 'cached' flag of describe are what they were before.
C31_SetWithoutSetterChangesNothing ==
    [][\A n \in Names :
         (SetReturns(n) /\ n \in Registered /\ settings[n].kind = NoSetter)
            => /\ lret'.out = "raised"
               /\ GetRaises(n)' = GetRaises(n)
               /\ Get(n)' = Get(n)
               /\ Cached(n)' = Cached(n)]_vars

\* C32 (as stated): for a setting without getter, get returns None before
\* any write and, after a set call that succeeded, the value of that
\* call; for a setting with a getter, get returns the getter's result,
\* which no write to the cache changes.
C32_GetReturnsCacheOrGetter ==
    [][\A n \in Names :
         /\ (n \in Registered' /\ ~settings'[n].getter
                /\ settings'[n].written = NoneValue)
               => (~GetRaises(n)' /\ Get(n)' = NoneValue)
         /\ (SetReturns(n) /\ n \in Registered /\ ~settings[n].getter
                /\ lret'.out # "raised")
               => (~GetRaises(n)' /\ Get(n)' = upd'.incoming[n])
         /\ (n \in Registered' /\ settings'[n].getter)
               => (Get(n)' = settings'[n].value /\ ~Cached(n)')]_vars

\* The combinations of type and mode an Alpao mirror supports.
Supported(ttype, tmode) ==
    /\ tmode \in {"ONCE", "START"}
    /\ ttype \in {"SOFTWARE", "RISING_EDGE", "FALLING_EDGE"}
    /\ ttype = "SOFTWARE" => tmode = "ONCE"

\* The step is a call of set_trigger, from call to return.
SetTriggerReturns ==
    /\ lpc = "idle" /\ lpc' = "idle"
    /\ nops' # nops
    /\ lret'.op = "set_trigger"

\* C33 (as stated): set_trigger(type, mode) fails for every combination
\* that is not supported; for every supported combination that the SDK
\* accepts it succeeds, and trigger_type is then type and trigger_mode
\* is mode.
C33_SetTriggerValidates ==
    [][SetTriggerReturns =>
         /\ ~Supported(attrs'.ttype, attrs'.tmode) => lret'.out = "raised"
         /\ (Supported(attrs'.ttype, attrs'.tmode) /\ lret'.hook = "SUCCESS")
               => /\ lret'.out # "raised"
                  /\ attrs'.trigger_type = attrs'.ttype
                  /\ attrs'.trigger_mode = attrs'.tmode]_vars

\* A supported combination other than the initial one has been set.
C33_Witness ==
    /\ lret.op = "set_trigger" /\ lret.out # "raised"
    /\ attrs.ttype = "FALLING_EDGE" /\ attrs.tmode = "START"
    /\ attrs.trigger_type = "FALLING_EDGE" /\ attrs.trigger_mode = "START"

\* C36 (as stated): after any calls of set_trigger the pair of
\* trigger_type and trigger_mode is a supported combination, and a call
\* that fails leaves both as they were.
C36_TriggerPairStaysSupported ==
    [][/\ Supported(attrs'.trigger_type, attrs'.trigger_mode)
       /\ (SetTriggerReturns /\ lret'.out = "raised")
             => /\ attrs'.trigger_type = attrs.trigger_type
                /\ attrs'.trigger_mode = attrs.trigger_mode]_vars

\* The thread is inside a wrapped operation, between taking the lock and
\* releasing it, which includes calling a nested one.
InExchange(t) ==
    \/ tpc[t] \in {"lc_flush", "lc_func", "lc_exit", "lc_raise"}
    \/ tpc[t] = "lc_acquire" /\ attrs.comms_owner = t

\* C34 (as stated): at most one thread is inside a wrapped operation, and
\* while its function runs the last flush of the connection is its own,
\* so that no other thread's flush, write or read falls between its flush
\* and its writes and reads; when no thread is inside a wrapped operation
\* the lock is free, whether the operations returned or raised; and a
\* thread that calls a wrapped operation from inside one can take the
\* lock again.
C34_LockCommsExcludes ==
    /\ \A t, u \in Threads : (InExchange(t) /\ InExchange(u)) => t = u
    /\ \A t \in Threads : tpc[t] = "lc_func" => attrs.line = t
    /\ (\A t \in Threads : ~InExchange(t))
          => (attrs.comms_owner = None /\ attrs.comms_count = 0)
    /\ \A t \in Threads :
          (tpc[t] = "lc_acquire" /\ attrs.comms_owner = t) => ENABLED LockAcquire(t)

\* A thread is in a nested operation while another waits for the lock,
\* after an operation that ended with an exception.
C34_Witness ==
    \E t, u \in Threads :
        /\ t # u
        /\ tpc[t] = "lc_func" /\ attrs.comms_count = MaxNest
        /\ tpc[u] = "lc_acquire"
        /\ lret.op = "lock_comms" /\ lret.out = "raised"

\* C35 (as stated): a disable() that waits for the fetch thread has
\* stopped it: while the call is in join(), the run flag it cleared is
\* clear or the loop has ended.  A loop that finds the flag set keeps
\* polling, the join does not return and neither does disable().
C35_DisableStopsFetchLoop ==
    lpc = "dis_wait" => (fpc = "dead" \/ ~fetch_thread_run)

\* C38 (as stated): a fetch loop that is about to poll the hardware finds
\* the device enabled, unless a call of the lifecycle thread is in
\* progress; in particular there is no such loop after an enable() that
\* failed.
C38_FetchLoopOnlyWhileEnabled ==
    (lpc = "idle" /\ fpc = "poll" /\ fetch_thread_run) => enabled = "true"

\* C37 (as stated): when a call of grab_next_data pushes the engine onto
\* the client stack, nothing tagged with the engine is in flight, neither
\* in the buffer nor in the hands of the dispatch loop or of _put.  With
\* one caller such an item was tagged during an earlier call; it is
\* ahead of everything fetched later, the engine is live again when it is
\* dispatched, and so it is what the later call returns.
C37_GrabReturnsFreshData ==
    [][(tpc["g1"] = "push" /\ tpc'["g1"] # "push")
         => \A i \in 1..Len(InFlight) : InFlight[i].client # Engine]_vars

\* C39 (as stated): data fetched while no client is subscribed is
\* delivered to nobody: the stack that is empty when the hook has
\* returned its data is empty until _put reads _client, _put then tags
\* the item with None, and the dispatch loop drops an item tagged None
\* without a delivery, whoever has subscribed since.
C39_DataWithoutClientIsDropped ==
    [][/\ (fpc = "tag" /\ clientStack = <<>>)
            => /\ fpc' = "tag" => clientStack' = <<>>
               /\ fpc' = "put" => fitem'.client = None
       /\ (dpc = "check" /\ ditem.client = None /\ dpc' # "check")
            => (dpc' = "get" /\ recent' = recent)]_vars

\* C40 (as stated): after set_roi(r), with r of non-zero width and
\* height and under whatever transform is in effect, get_roi() returns r.
C40_RoiRoundTrip ==
    lret.op = "set_roi" => GetRoi = attrs.asked

====
